---------------------------- MODULE Spec2Model ----------------------------
(***************************************************************************)
(* A model of nbjoiner (src/src/main.rs): the Relation data structure and  *)
(* its hash join, the query Graph, and the Planner that derives a join     *)
(* order from the graph.                                                   *)
(*                                                                         *)
(* Vertices of the graph and positions of joined_tables are 0-based, as in *)
(* the source; a Vec v is a TLA+ sequence whose element i of the source is *)
(* v[i + 1].                                                               *)
(***************************************************************************)
EXTENDS Integers, Sequences, FiniteSets

VARIABLES
    joined_tables,  \* Planner.joined_tables : Vec<Relation>
    query_graph,    \* Planner.query_graph.edges : Vec<Vec<usize>>
    added,          \* history: the relations handed to Planner::join, in order
    pc,             \* where the caller / Planner::plan stands
    remaining,      \* plan(): the HashSet `remaining`
    frontier,       \* plan(): the Vec `frontier`, used as a stack
    plan,           \* plan(): the Vec `plan` of positions
    out,            \* plan(): the returned Vec<Relation>
    folded,         \* main(): the result of reducing the plan with join
    rel_r,          \* main(): the relation r (also the one under construction)
    rel_s,          \* main(): the relation s
    rel_t,          \* main(): the relation t
    rs,             \* r.join(&s)
    rts,            \* r.join(&t).join(&s)
    rst             \* r.join(&s).join(&t)

\* the Planner and the locals of plan()
planVars == <<joined_tables, query_graph, added, remaining, frontier, plan,
              out, folded>>

\* the relations of the caller and their joins
joinVars == <<rel_r, rel_s, rel_t, rs, rts, rst>>

vars == <<planVars, joinVars, pc>>

-----------------------------------------------------------------------------
(* Bounds and input alphabets *)

\* Largest number of relations handed to one Planner.
MaxRels == 3

\* Column names the inputs draw from, in alphabetical order.
ColNames == <<"a", "b", "c">>

\* Cell values the inputs draw from (join only compares cells for equality).
Vals == {1, 2}

\* strictly increasing sequences over 1..n
RECURSIVE IncSeqs(_)
IncSeqs(n) ==
    IF n = 0 THEN {<<>>}
    ELSE IncSeqs(n - 1) \cup {Append(q, n) : q \in IncSeqs(n - 1)}

\* column-name lists in alphabetical order, without repetition
SortedCols == {[k \in 1..Len(q) |-> ColNames[q[k]]] : q \in IncSeqs(Len(ColNames))}

-----------------------------------------------------------------------------
(* Vec helpers *)

\* slice.contains(x)
Contains(v, x) == \E i \in 1..Len(v) : v[i] = x

\* the set of the elements of a Vec
Elems(v) == {v[i] : i \in 1..Len(v)}

\* iter().position(|c| c == x), as a 1-based index (0 when absent)
Position(v, x) ==
    IF Contains(v, x)
    THEN CHOOSE i \in 1..Len(v) : v[i] = x /\ \A j \in 1..(i - 1) : v[j] # x
    ELSE 0

\* iter().filter(Keep) over v, from element i on
RECURSIVE FilterFrom(_, _, _)
FilterFrom(v, keep, i) ==
    IF i > Len(v) THEN <<>>
    ELSE (IF v[i] \in keep THEN <<v[i]>> ELSE <<>>) \o FilterFrom(v, keep, i + 1)

-----------------------------------------------------------------------------
(* Relation *)

\* struct Relation { col_names, data }
Relation(cols, rows) == [col_names |-> cols, data |-> rows]

\* Relation::default(), what std::mem::take leaves behind
DefaultRelation == Relation(<<>>, <<>>)

\* Relation::new(col_names)
RelationNew(cols) == Relation(cols, <<>>)

\* Relation::new_with_data(col_names, data)
RelationNewWithData(cols, rows) == Relation(cols, rows)

\* Relation::row(row)
RelationRow(self, row) == [self EXCEPT !.data = Append(@, row)]

\* Relation::rows(rows)
RelationRows(self, rows) == [self EXCEPT !.data = rows]

\* join(): common_cols, the columns of self that other names too
CommonCols(self, other) ==
    FilterFrom(self.col_names, Elems(other.col_names), 1)

\* output columns that repeat the columns of other which self names too
OutputColsKeepShared(self, other) == self.col_names \o other.col_names

\* join(): output_cols, self's columns then other's columns self does not name
OutputCols(self, other) ==
    self.col_names \o
        FilterFrom(other.col_names,
                   Elems(other.col_names) \ Elems(self.col_names), 1)

\* join(): left_key / right_key, the 0-based position in cols of each common
\* column
KeyPositions(cols, common_cols) ==
    [k \in 1..Len(common_cols) |-> Position(cols, common_cols[k]) - 1]

\* join(): the key of a row, key.iter().map(|i| row[*i])
KeyOf(row, key) == [k \in 1..Len(key) |-> row[key[k] + 1]]

\* a table entry that keeps only the last row of a key
TableInsertLast(table, key, row) ==
    [k \in DOMAIN table \cup {key} |-> IF k = key THEN <<row>> ELSE table[k]]

\* join(): table.entry(key).or_insert_with(Vec::new).push(row)
TableInsert(table, key, row) ==
    [k \in DOMAIN table \cup {key} |->
        IF k = key
        THEN (IF key \in DOMAIN table THEN Append(table[key], row) ELSE <<row>>)
        ELSE table[k]]

\* join(): the build loop over self.data, from row i on
RECURSIVE BuildTable(_, _, _, _)
BuildTable(data, left_key, table, i) ==
    IF i > Len(data) THEN table
    ELSE BuildTable(data, left_key,
                    TableInsert(table, KeyOf(data[i], left_key), data[i]),
                    i + 1)

\* an output row that keeps every cell of other's row
NewRowKeepKey(left_row, row, right_key) == left_row \o row

\* join(): the cells of other's row whose 0-based position, from i on, is not
\* in right_key
RECURSIVE RestOfRow(_, _, _)
RestOfRow(row, right_key, i) ==
    IF i >= Len(row) THEN <<>>
    ELSE (IF Contains(right_key, i) THEN <<>> ELSE <<row[i + 1]>>)
             \o RestOfRow(row, right_key, i + 1)

\* join(): new_row, the left row extended with the rest of other's row
NewRow(left_row, row, right_key) == left_row \o RestOfRow(row, right_key, 0)

\* join(): the probe loop over other.data, from row i on
RECURSIVE Probe(_, _, _, _)
Probe(data, right_key, table, i) ==
    IF i > Len(data) THEN <<>>
    ELSE LET row == data[i]
             key == KeyOf(row, right_key)
             rows == IF key \in DOMAIN table THEN table[key] ELSE <<>>
         IN  [k \in 1..Len(rows) |-> NewRow(rows[k], row, right_key)]
                 \o Probe(data, right_key, table, i + 1)

\* Relation::join(&self, other)
RelationJoin(self, other) ==
    LET common_cols == CommonCols(self, other)
        left_key == KeyPositions(self.col_names, common_cols)
        right_key == KeyPositions(other.col_names, common_cols)
        table == BuildTable(self.data, left_key, <<>>, 1)
    IN  RelationNewWithData(OutputCols(self, other),
                            Probe(other.data, right_key, table, 1))

-----------------------------------------------------------------------------
(* Graph *)

\* the `while self.edges.len() <= a.max(b)` loop of Graph::edge
RECURSIVE Grow(_, _)
Grow(edges, top) ==
    IF Len(edges) <= top THEN Grow(Append(edges, <<>>), top) ELSE edges

\* Graph::edge without the reciprocal entry
GraphEdgeOneWay(edges, a, b) ==
    LET grown == Grow(edges, IF a >= b THEN a ELSE b)
    IN  [grown EXCEPT ![a + 1] = Append(@, b)]

\* Graph::edge(a, b)
GraphEdge(edges, a, b) ==
    LET grown == Grow(edges, IF a >= b THEN a ELSE b)
        first == [grown EXCEPT ![a + 1] = Append(@, b)]
    IN  [first EXCEPT ![b + 1] = Append(@, a)]

\* Graph::neighbours(vertex)
Neighbours(edges, vertex) ==
    IF vertex + 1 <= Len(edges) THEN edges[vertex + 1] ELSE <<>>

-----------------------------------------------------------------------------
(* Planner::join *)

\* the test of Planner::join: does rel name a column of t
SharesColumn(rel, t) ==
    LET t_cols == Elems(t.col_names)
    IN  \E k \in 1..Len(rel.col_names) : rel.col_names[k] \in t_cols

\* the loop of Planner::join over joined_tables, from position i on
RECURSIVE JoinEdges(_, _, _, _)
JoinEdges(tables, edges, rel, i) ==
    IF i >= Len(tables) THEN edges
    ELSE JoinEdges(tables,
                   IF SharesColumn(rel, tables[i + 1])
                   THEN GraphEdge(edges, Len(tables), i)
                   ELSE edges,
                   rel, i + 1)

\* Planner::join(rel)
PlannerJoin(rel) ==
    /\ pc = "build"
    /\ Len(joined_tables) < MaxRels
    /\ query_graph' = JoinEdges(joined_tables, query_graph, rel, 0)
    /\ joined_tables' = Append(joined_tables, rel)
    /\ added' = Append(added, rel)
    /\ UNCHANGED <<pc, remaining, frontier, plan, out, folded, joinVars>>

-----------------------------------------------------------------------------
(* Planner::plan *)

\* plan(): `plan` and `remaining` are set up
PlanBegin ==
    /\ pc = "build"
    /\ pc' = "plan"
    /\ plan' = <<>>
    /\ remaining' = 0..(Len(joined_tables) - 1)
    /\ frontier' = <<>>
    /\ UNCHANGED <<joined_tables, query_graph, added, out, folded, joinVars>>

\* plan(): the outer loop takes any element of `remaining` (HashSet order)
PlanSeed ==
    /\ pc = "plan"
    /\ frontier = <<>>
    /\ \E next \in remaining : frontier' = <<next>>
    /\ UNCHANGED <<joined_tables, query_graph, added, pc, remaining, plan,
                   out, folded, joinVars>>

\* the element frontier.pop() returns
Top(stack) == stack[Len(stack)]

\* the inner loop leaving the last entry of the frontier unpopped
PlanPopStopsEarly ==
    /\ pc = "plan"
    /\ Len(frontier) > 1
    /\ LET relation == Top(frontier)
           rest == SubSeq(frontier, 1, Len(frontier) - 1)
           left == remaining \ {relation}
       IN  /\ remaining' = left
           /\ plan' = Append(plan, relation)
           /\ frontier' =
                  rest \o FilterFrom(Neighbours(query_graph, relation), left, 1)
    /\ UNCHANGED <<joined_tables, query_graph, added, pc, out, folded, joinVars>>

\* plan(): one turn of the inner loop
PlanPop ==
    /\ pc = "plan"
    /\ frontier # <<>>
    /\ LET relation == Top(frontier)
           rest == SubSeq(frontier, 1, Len(frontier) - 1)
           left == remaining \ {relation}
       IN  /\ remaining' = left
           /\ plan' = Append(plan, relation)
           /\ frontier' =
                  rest \o FilterFrom(Neighbours(query_graph, relation), left, 1)
    /\ UNCHANGED <<joined_tables, query_graph, added, pc, out, folded, joinVars>>

\* plan(): the closing map, std::mem::take of joined_tables[i] for i in plan
RECURSIVE TakeAll(_, _, _)
TakeAll(tables, order, k) ==
    IF k > Len(order) THEN [tables |-> tables, taken |-> <<>>]
    ELSE LET i == order[k]
             later == TakeAll([tables EXCEPT ![i + 1] = DefaultRelation],
                              order, k + 1)
         IN  [tables |-> later.tables,
              taken |-> <<tables[i + 1]>> \o later.taken]

\* plan(): both loops are over, the relations are moved out and returned
PlanCollect ==
    /\ pc = "plan"
    /\ frontier = <<>>
    /\ remaining = {}
    /\ LET moved == TakeAll(joined_tables, plan, 1)
       IN  /\ joined_tables' = moved.tables
           /\ out' = moved.taken
    /\ pc' = "done"
    /\ UNCHANGED <<query_graph, added, remaining, frontier, plan, folded,
                   joinVars>>

PlanStep == PlanSeed \/ PlanPop \/ PlanCollect

-----------------------------------------------------------------------------
(* The Planner fed with empty relations, Relation::new(col_names) *)

PlanInputs == {RelationNew(cols) : cols \in SortedCols}

\* Planner::default(), and plan() not entered
PlannerDefault ==
    /\ joined_tables = <<>>
    /\ query_graph = <<>>
    /\ added = <<>>
    /\ remaining = {}
    /\ frontier = <<>>
    /\ plan = <<>>
    /\ out = <<>>
    /\ folded = DefaultRelation

\* no relation of the caller is built yet
NoOperands ==
    /\ rel_r = DefaultRelation
    /\ rel_s = DefaultRelation
    /\ rel_t = DefaultRelation
    /\ rs = DefaultRelation
    /\ rts = DefaultRelation
    /\ rst = DefaultRelation

Init ==
    /\ PlannerDefault
    /\ NoOperands
    /\ pc = "build"

AddRelation == \E rel \in PlanInputs : PlannerJoin(rel)

Next == AddRelation \/ PlanBegin \/ PlanSeed \/ PlanPop \/ PlanCollect

Spec == Init /\ [][Next]_vars

\* plan() is a synchronous call: once entered, its loops run on
FairSpec == Spec /\ WF_vars(PlanStep)

-----------------------------------------------------------------------------
(* Relation::join on two relations of the caller *)

\* Largest number of rows of a relation the caller builds.
MaxRows == 2

\* column-name lists of up to two names, repetitions included
ColLists ==
    {<<>>} \cup {<<x>> : x \in Elems(ColNames)}
           \cup {<<x, y>> : x \in Elems(ColNames), y \in Elems(ColNames)}

\* the rows of n cells
RowsOf(n) == [1..n -> Vals]

\* the row lists of up to MaxRows rows of n cells
DataOf(n) == UNION {[1..m -> RowsOf(n)] : m \in 0..MaxRows}

\* the relations whose rows all have as many cells as there are column names
Operands ==
    UNION {{Relation(cols, rows) : rows \in DataOf(Len(cols))} : cols \in ColLists}

JoinInit ==
    /\ PlannerDefault
    /\ rel_r \in Operands
    /\ rel_s \in Operands
    /\ rel_t = DefaultRelation
    /\ rs = DefaultRelation
    /\ rts = DefaultRelation
    /\ rst = DefaultRelation
    /\ pc = "operands"

\* main(): r.join(&s)
JoinRS ==
    /\ pc = "operands"
    /\ rs' = RelationJoin(rel_r, rel_s)
    /\ pc' = "joined"
    /\ UNCHANGED <<planVars, rel_r, rel_s, rel_t, rts, rst>>

JoinNext == JoinRS

JoinSpec == JoinInit /\ [][JoinNext]_vars

-----------------------------------------------------------------------------
(* The constructors of Relation, called with rows of any length *)

\* the rows of as many cells as some column list has names
AnyRows == UNION {RowsOf(Len(cols)) : cols \in ColLists}

\* the row lists of up to MaxRows such rows
AnyData == UNION {[1..m -> AnyRows] : m \in 0..MaxRows}

BuildInit ==
    /\ PlannerDefault
    /\ NoOperands
    /\ pc = "start"

\* Relation::new(col_names)
BuildNew ==
    /\ pc = "start"
    /\ \E cols \in ColLists : rel_r' = RelationNew(cols)
    /\ pc' = "built"
    /\ UNCHANGED <<planVars, rel_s, rel_t, rs, rts, rst>>

\* Relation::new_with_data(col_names, data)
BuildNewWithData ==
    /\ pc = "start"
    /\ \E cols \in ColLists, rows \in AnyData :
           rel_r' = RelationNewWithData(cols, rows)
    /\ pc' = "built"
    /\ UNCHANGED <<planVars, rel_s, rel_t, rs, rts, rst>>

\* .row(row)
BuildRow ==
    /\ pc = "built"
    /\ Len(rel_r.data) < MaxRows
    /\ \E row \in AnyRows : rel_r' = RelationRow(rel_r, row)
    /\ UNCHANGED <<planVars, rel_s, rel_t, rs, rts, rst, pc>>

\* .rows(rows)
BuildRows ==
    /\ pc = "built"
    /\ \E rows \in AnyData : rel_r' = RelationRows(rel_r, rows)
    /\ UNCHANGED <<planVars, rel_s, rel_t, rs, rts, rst, pc>>

BuildNext == BuildNew \/ BuildNewWithData \/ BuildRow \/ BuildRows

BuildSpec == BuildInit /\ [][BuildNext]_vars

-----------------------------------------------------------------------------
(* Joining three relations in two orders *)

\* Largest number of rows the three relations have together.
MaxTotalRows == 3

\* the relations of n rows with one or two column names in alphabetical order
SortedOperands(n) ==
    UNION {{Relation(cols, rows) : rows \in [1..n -> RowsOf(Len(cols))]} :
              cols \in {c \in SortedCols : Len(c) \in {1, 2}}}

OrderInit ==
    /\ PlannerDefault
    /\ \E n1 \in 0..MaxTotalRows :
           \E n2 \in 0..(MaxTotalRows - n1) :
               \E n3 \in 0..(MaxTotalRows - n1 - n2) :
                   /\ rel_r \in SortedOperands(n1)
                   /\ rel_s \in SortedOperands(n2)
                   /\ rel_t \in SortedOperands(n3)
    /\ rs = DefaultRelation
    /\ rts = DefaultRelation
    /\ rst = DefaultRelation
    /\ pc = "operands"

\* main(): r.join(&t).join(&s), and the other order r.join(&s).join(&t)
JoinBothOrders ==
    /\ pc = "operands"
    /\ rts' = RelationJoin(RelationJoin(rel_r, rel_t), rel_s)
    /\ rst' = RelationJoin(RelationJoin(rel_r, rel_s), rel_t)
    /\ pc' = "joined"
    /\ UNCHANGED <<planVars, rel_r, rel_s, rel_t, rs>>

OrderNext == JoinBothOrders

OrderSpec == OrderInit /\ [][OrderNext]_vars

-----------------------------------------------------------------------------
(* main(): relations with rows handed to the Planner, the plan reduced with
   join *)

\* the relations of at most one row with one or two column names
FoldInputs == SortedOperands(0) \cup SortedOperands(1)

AddOperand == \E rel \in FoldInputs : PlannerJoin(rel)

\* reduce(|result, next| result.join(&next)) from entry k on
RECURSIVE ReduceJoin(_, _, _)
ReduceJoin(result, rels, k) ==
    IF k > Len(rels) THEN result
    ELSE ReduceJoin(RelationJoin(result, rels[k]), rels, k + 1)

\* main(): plan.into_iter().reduce(..).unwrap(); unwrap panics on no relation
Reduce ==
    /\ pc = "done"
    /\ IF out = <<>>
       THEN pc' = "panic" /\ UNCHANGED folded
       ELSE pc' = "folded" /\ folded' = ReduceJoin(out[1], out, 2)
    /\ UNCHANGED <<joined_tables, query_graph, added, remaining, frontier,
                   plan, out, joinVars>>

FoldNext ==
    AddOperand \/ PlanBegin \/ PlanSeed \/ PlanPop \/ PlanCollect \/ Reduce

FoldSpec == Init /\ [][FoldNext]_vars

-----------------------------------------------------------------------------
(* What the claims about Relation::join speak of *)

\* no column name occurs twice
NoDuplicate(cols) == \A k, l \in 1..Len(cols) : cols[k] = cols[l] => k = l

\* the shape invariant: every row has one cell per column name
ShapeOK(rel) ==
    \A k \in 1..Len(rel.data) : Len(rel.data[k]) = Len(rel.col_names)

\* a well-formed relation: the shape invariant and unique column names
WellFormed(rel) == ShapeOK(rel) /\ NoDuplicate(rel.col_names)

\* the cell of row k of rel in the column named c
Cell(rel, k, c) == rel.data[k][Position(rel.col_names, c)]

\* the column names x and y both have
SharedNames(x, y) == Elems(x.col_names) \cap Elems(y.col_names)

\* row i of x and row j of y agree on every column name common to x and y
Agree(x, i, y, j) == \A c \in SharedNames(x, y) : Cell(x, i, c) = Cell(y, j, c)

\* the pairs of a row of x and a row of y that agree
MatchingPairs(x, y) ==
    {p \in (1..Len(x.data)) \X (1..Len(y.data)) : Agree(x, p[1], y, p[2])}

\* the cells of row j of y in the columns, from column k on, x does not name
RECURSIVE OwnCells(_, _, _, _)
OwnCells(x, y, j, k) ==
    IF k > Len(y.col_names) THEN <<>>
    ELSE (IF y.col_names[k] \in Elems(x.col_names) THEN <<>>
          ELSE <<y.data[j][k]>>) \o OwnCells(x, y, j, k + 1)

\* the output row of a matching pair
PairRow(x, y, p) == x.data[p[1]] \o OwnCells(x, y, p[2], 1)

\* the names of cols that names does not hold, in the order of cols
RECURSIVE Without(_, _)
Without(cols, names) ==
    IF cols = <<>> THEN <<>>
    ELSE (IF Head(cols) \in names THEN <<>> ELSE <<Head(cols)>>)
             \o Without(Tail(cols), names)

\* C4: for well-formed r and s, r.join(&s) holds exactly one row for each
\* pair of a row of r and a row of s that agree on every common column, and
\* no other row; the row is r's row followed by s's cells at its non-shared
\* columns (so k rows and m rows sharing a key give k*m rows, and with no
\* common column every pair gives a row).
C4_JoinIsInnerJoin ==
    (pc = "joined" /\ WellFormed(rel_r) /\ WellFormed(rel_s)) =>
        LET pairs == MatchingPairs(rel_r, rel_s)
            expected == {PairRow(rel_r, rel_s, p) : p \in pairs}
        IN  /\ Len(rs.data) = Cardinality(pairs)
            /\ \A row \in expected \cup Elems(rs.data) :
                   Cardinality({k \in 1..Len(rs.data) : rs.data[k] = row}) =
                   Cardinality({p \in pairs : PairRow(rel_r, rel_s, p) = row})

\* C4 witness: two rows of r and two rows of s share one key, r and s each
\* have a column of their own, and the join has the four rows.
C4_Witness ==
    /\ pc = "joined"
    /\ WellFormed(rel_r) /\ WellFormed(rel_s)
    /\ Cardinality(SharedNames(rel_r, rel_s)) = 1
    /\ Len(rel_r.col_names) = 2 /\ Len(rel_s.col_names) = 2
    /\ Len(rel_r.data) = 2 /\ Len(rel_s.data) = 2
    /\ rel_r.data[1] # rel_r.data[2]
    /\ rel_s.data[1] # rel_s.data[2]
    /\ Len(rs.data) = 4

\* C5 as stated: for any r and s the columns of r.join(&s) are r's columns
\* followed by s's columns that r does not name, and no name occurs twice.
C5_OutputColumnsAnyRelations ==
    pc = "joined" =>
        /\ rs.col_names =
               rel_r.col_names \o Without(rel_s.col_names, Elems(rel_r.col_names))
        /\ NoDuplicate(rs.col_names)

\* C5 amended: for any r and s the columns of r.join(&s) are r's columns
\* followed by s's columns that r does not name; no name occurs twice when
\* neither r nor s names a column twice.
C5_OutputColumns ==
    pc = "joined" =>
        /\ rs.col_names =
               rel_r.col_names \o Without(rel_s.col_names, Elems(rel_r.col_names))
        /\ (NoDuplicate(rel_r.col_names) /\ NoDuplicate(rel_s.col_names))
               => NoDuplicate(rs.col_names)

\* C5 witness: r and s have unique names, share one and s has one of its own.
C5_Witness ==
    /\ pc = "joined"
    /\ NoDuplicate(rel_r.col_names) /\ NoDuplicate(rel_s.col_names)
    /\ Len(rel_r.col_names) = 2 /\ Len(rel_s.col_names) = 2
    /\ Cardinality(SharedNames(rel_r, rel_s)) = 1
    /\ Len(rs.col_names) = 3

\* C9: join preserves the shape invariant: when every row of r and of s has
\* one cell per column name (names possibly repeated), so has every row of
\* r.join(&s).
C9_JoinPreservesShape ==
    (pc = "joined" /\ ShapeOK(rel_r) /\ ShapeOK(rel_s)) => ShapeOK(rs)


\* row k of rel read as a mapping from column name to value
Tuple(rel, k) == [c \in Elems(rel.col_names) |-> Cell(rel, k, c)]

\* how often the mapping t occurs among the rows of rel
Count(rel, t) == Cardinality({k \in 1..Len(rel.data) : Tuple(rel, k) = t})

\* x and y hold the same multiset of mappings
SameTuples(x, y) ==
    \A t \in {Tuple(x, k) : k \in 1..Len(x.data)}
               \cup {Tuple(y, k) : k \in 1..Len(y.data)} :
        Count(x, t) = Count(y, t)

\* C6: for well-formed r, s and t, r.join(&t).join(&s) and
\* r.join(&s).join(&t) hold the same multiset of rows read as mappings from
\* column name to value, over the same column names.
C6_JoinOrderIrrelevant ==
    pc = "joined" =>
        /\ Elems(rts.col_names) = Elems(rst.col_names)
        /\ Len(rts.data) = Len(rst.data)
        /\ SameTuples(rts, rst)

\* C6 witness: r and t share no column, s shares one with each, every one of
\* the three has a row and the join is not empty.
C6_Witness ==
    /\ pc = "joined"
    /\ SharedNames(rel_r, rel_t) = {}
    /\ SharedNames(rel_r, rel_s) # {}
    /\ SharedNames(rel_s, rel_t) # {}
    /\ Len(rel_r.col_names) = 2
    /\ rts.data # <<>>
    /\ rst.data # <<>>

\* C7: no relation holding a row whose length differs from the number of
\* columns is ever produced by new_with_data, row or rows.
C7_MalformedRowsRejected == pc = "built" => ShapeOK(rel_r)

\* the relations handed to the Planner, one row index for each
RowChoices ==
    {f \in [1..Len(added) -> 1..MaxRows] :
        \A i \in 1..Len(added) : f[i] <= Len(added[i].data)}

\* the rows chosen agree on every column name two relations have in common
Consistent(f) ==
    \A i, j \in 1..Len(added) : Agree(added[i], f[i], added[j], f[j])

\* all column names of the relations handed to the Planner
AllNames == UNION {Elems(added[i].col_names) : i \in 1..Len(added)}

\* the mapping the chosen rows make together
Combined(f) ==
    [c \in AllNames |->
        LET i == CHOOSE i \in 1..Len(added) : c \in Elems(added[i].col_names)
        IN  Cell(added[i], f[i], c)]

\* C3: for a non-empty collection of well-formed relations, reducing the
\* sequence plan() returns with join gives the natural join of the inputs:
\* one row, read as a mapping from column name to value, for every choice of
\* one row per input that agrees on all common columns.
C3_FoldIsNaturalJoin ==
    pc = "folded" =>
        LET joins == {f \in RowChoices : Consistent(f)}
        IN  /\ Elems(folded.col_names) = AllNames
            /\ Len(folded.data) = Cardinality(joins)
            /\ \A f \in joins :
                   Count(folded, Combined(f)) =
                       Cardinality({g \in joins : Combined(g) = Combined(f)})

-----------------------------------------------------------------------------
(* What the claims speak of *)

\* two relations name a common column
Shares(x, y) == Elems(x.col_names) \cap Elems(y.col_names) # {}

\* the positions of the relations handed to the Planner
Positions == 0..(Len(added) - 1)

\* the positions reachable from the set seen along shares-a-column links
RECURSIVE Closure(_)
Closure(seen) ==
    LET more == {j \in Positions :
                    \E i \in seen : Shares(added[i + 1], added[j + 1])}
    IN  IF more \subseteq seen THEN seen ELSE Closure(seen \cup more)

\* the connected component of position i
Component(i) == Closure({i})

\* entry k of the plan is the first one of its connected component
FirstOfComponent(k) == \A j \in 1..(k - 1) : plan[j] \notin Component(plan[k])

\* every pair of distinct relations handed to the Planner shares a column
AllConnected ==
    \A i, j \in Positions : i # j => Shares(added[i + 1], added[j + 1])

\* C1: when plan() has returned, its output is a permutation of the
\* relations that were added: as many entries as relations, every position
\* exactly once, and each entry the relation added at its position (no
\* placeholder left by std::mem::take).
C1_PlanIsPermutation ==
    pc = "done" =>
        /\ Len(out) = Len(added)
        /\ \A i \in Positions :
               Cardinality({k \in 1..Len(plan) : plan[k] = i}) = 1
        /\ \A k \in 1..Len(out) : out[k] = added[plan[k] + 1]

\* C2: when plan() has returned, every relation of the returned sequence
\* other than the first one of its connected component shares a column name
\* with a relation at an earlier position of the returned sequence.
C2_PlanValidity ==
    pc = "done" =>
        \A k \in 1..Len(out) :
            \/ FirstOfComponent(k)
            \/ \E j \in 1..(k - 1) : Shares(out[j], out[k])

\* C8: after any sequence of Planner::join calls the query graph is the
\* shares-a-column relation on the stored relations: j is a neighbour of i
\* iff relations i and j (i # j) share a column name, the graph is symmetric,
\* no vertex is its own neighbour and no neighbour is listed twice.
C8_GraphIsSharesRelation ==
    pc = "build" =>
        LET n == Len(joined_tables)
            nb(i) == Neighbours(query_graph, i)
        IN  /\ Len(query_graph) <= n
            /\ \A i, j \in 0..(n - 1) :
                   /\ i # j => (Contains(nb(i), j) <=>
                                   Shares(joined_tables[i + 1], joined_tables[j + 1]))
                   /\ Contains(nb(i), j) <=> Contains(nb(j), i)
            /\ \A i \in 0..(n - 1) :
                   /\ ~Contains(nb(i), i)
                   /\ \A k, l \in 1..Len(nb(i)) : nb(i)[k] = nb(i)[l] => k = l

\* C8 witness: three relations are stored, two of them linked and the third
\* linked to neither of the two.
C8_Witness ==
    /\ pc = "build"
    /\ Len(joined_tables) = 3
    /\ Contains(Neighbours(query_graph, 0), 1)
    /\ ~Contains(Neighbours(query_graph, 2), 0)
    /\ ~Contains(Neighbours(query_graph, 2), 1)
    /\ joined_tables[3].col_names # <<>>

\* C10: plan() runs to completion: once entered, it reaches the state where
\* the frontier and the remaining set are both empty and it has returned.
C10_PlanTerminates ==
    (pc = "plan") ~> (pc = "done" /\ frontier = <<>> /\ remaining = {})

\* C10 witness: plan() has returned on a cyclic graph (three relations that
\* pairwise share a column), after more pops than there are relations.
C10_Witness ==
    /\ pc = "done"
    /\ Len(added) = 3
    /\ AllConnected
    /\ Len(plan) > 3
    /\ frontier = <<>>
    /\ remaining = {}

=============================================================================
